---------------------------- MODULE Spec2Model ----------------------------
(***************************************************************************)
(* The authoritative arena server (the version with dash, gun and sword):  *)
(* one World State (players, bullets), the socket handlers that mutate it  *)
(* and the fixed-rate gameLoop that advances it and broadcasts a delta.    *)
(*                                                                         *)
(* Units.  Positions are pixels.  A timer is held in half ticks: one tick  *)
(* of TICK_RATE/1000 seconds is DT = 2 units, and one unit stands for the  *)
(* remainder the IEEE-754 double subtraction leaves when a cooldown is a   *)
(* whole number of ticks on paper (0.3 - 18*(1000/60/1000) = +4.9e-17,     *)
(* 0.8 - 48*dt = -7.3e-16, 3 - 180*dt = +5.7e-15, 0.2 - 12*dt = +4.9e-17). *)
(* Only the sign of a timer is ever read by the code, and the encoding     *)
(* keeps the sign the double has after every decrement.                    *)
(*                                                                         *)
(* Errors.  A callback that raises (TypeError, ReferenceError) stops at    *)
(* the raising statement; what it wrote before stays written.  `threw'     *)
(* records it.  What the host does with the uncaught error is outside the  *)
(* repository; the model lets the event loop go on, which includes every   *)
(* behaviour of a host that stops instead as a prefix.                     *)
(***************************************************************************)
EXTENDS Integers, Sequences, FiniteSets, TLC

\* ------------------------------------------------------------ GAME CONSTANTS
MAP_WIDTH == 800
MAP_HEIGHT == 600
PLAYER_RADIUS == 10
PLAYER_MAX_HP == 100
PLAYER_SPEED == 2
DASH_SPEED == 8
BULLET_SPEED == 7
BULLET_RADIUS == 3
GUN_DAMAGE == 10
MELEE_DAMAGE == 25
MELEE_RANGE == 25

\* One tick, TICK_RATE / 1000 seconds, in timer units.
DT == 2
\* 0.2 s = 12 ticks and a positive double remainder.
DASH_DURATION == 12 * DT + 1
\* 3 s = 180 ticks and a positive double remainder.
DASH_COOLDOWN == 180 * DT + 1
\* 0.3 s = 18 ticks and a positive double remainder.
GUN_COOLDOWN == 18 * DT + 1
\* 0.8 s = 48 ticks less a double remainder.
MELEE_COOLDOWN == 48 * DT - 1

\* ------------------------------------------------------------------ bounds
\* Connections accepted over the life of the process.
MaxConns == 3
\* Callbacks run after the initial scene.
MaxSteps == 3
\* Callbacks and waits of the drawing game run after the initial scene.
MaxDrawSteps == 5
\* The counts of ticks since a player's last shot and last dash stop at this
\* value.
MaxAge == 20

\* --------------------------------------------------------------- helpers
Min(a, b) == IF a < b THEN a ELSE b
Max(a, b) == IF a > b THEN a ELSE b
Least(S) == CHOOSE m \in S : \A n \in S : m <= n

\* Socket ids are opaque and never issued twice; the model issues 1, 2, ...
\* in connection order, so that the insertion order `for (id in players)'
\* walks is the ascending order of the ids.

\* The payload of an 'inputs' event: the set of keys that are truthy, or
\* NullInputs for a payload that is null or undefined.
NullInputs == {"null"}
NoKeys == {}

VARIABLES
    players,          \* gameState.players: id -> player record
    bullets,          \* gameState.bullets: bullet id -> bullet record
    bulletIdCounter,  \* next bullet id
    newPlayers,       \* keys of newPlayers: joined since the last broadcast
    removedPlayers,   \* removedPlayers: left since the last broadcast
    delta,            \* the last delta handed to io.emit('stateUpdate')
    conns,            \* connections accepted so far
    threw,            \* what the last callback raised, or "none"
    since,            \* who joined, left and was hurt since the last broadcast,
                      \* who was a player at that broadcast, and the bullets
                      \* that have struck a player so far
    last,             \* the last callback and what it observed
    steps,            \* callbacks run so far
    drawing           \* the drawing game (src/unnamed/part_002): its
                      \* gameState, gameTimer and the timers it has set

vars == <<players, bullets, bulletIdCounter, newPlayers, removedPlayers,
          delta, conns, threw, since, last, steps, drawing>>


\* ------------------------------------------------------------ World State
EmptyMap == [k \in {} |-> 0]
Put(f, k, v) == [x \in DOMAIN f \cup {k} |-> IF x = k THEN v ELSE f[x]]
Drop(f, S) == [x \in DOMAIN f \ S |-> f[x]]
SeqSet(s) == {s[i] : i \in 1..Len(s)}

\* The record io.on('connection') builds (id and color left out: the id is
\* the key, the color is never read by the server).  sinceShot and sinceDash
\* are history fields the source does not have: the number of ticks that
\* stepped this player's timers since its last shot and since its last dash,
\* -1 before the first.
NewPlayer ==
    [x |-> MAP_WIDTH \div 2, y |-> MAP_HEIGHT \div 2,
     targetX |-> MAP_WIDTH \div 2, targetY |-> MAP_HEIGHT \div 2,
     hp |-> PLAYER_MAX_HP, maxHp |-> PLAYER_MAX_HP,
     inputs |-> NoKeys, isDashing |-> FALSE,
     dashTimer |-> 0, dashCooldown |-> 0, gunCooldown |-> 0, meleeCooldown |-> 0,
     sinceShot |-> 0 - 1, sinceDash |-> 0 - 1]

EmptyDelta == [updates |-> {}, new |-> {}, removed |-> <<>>, bullets |-> EmptyMap]

\* The state the module-level declarations leave.
EmptyWorld ==
    [players |-> EmptyMap, bullets |-> EmptyMap, bulletIdCounter |-> 0,
     newPlayers |-> {}, removedPlayers |-> <<>>, delta |-> EmptyDelta,
     conns |-> 0, threw |-> "none"]

\* The drawing game, src/unnamed/part_002.  Seconds.
ROUND_TIME == 90
GET_READY_TIME == 5
MAX_ROUNDS == 10
\* setTimeout(startNewRound, 10000) in endGame
RESTART_TIME == 10

\* The state the module-level declarations of part_002 leave.  players is
\* Object.keys(gameState.players), in insertion order, and score the score
\* of each (usernames, the word and its hint are left out: no branch reads
\* them but the comparison of a guess with the word, which is an input).
\* timers holds the timeouts and intervals that are set, in the order of
\* the instant within the second at which each comes due; pos is how many
\* of them the current second has already passed; due is the number of
\* second boundaries a timer still has to cross.  handles counts the handles
\* given out, gameTimer is the handle the variable holds (0: null).  History:
\* decs counts the executions of gameState.timer-- in the current second,
\* raised says that some callback has raised.
DrawEmpty ==
    [players |-> <<>>, score |-> EmptyMap, currentDrawerId |-> 0,
     isRoundActive |-> FALSE, currentRound |-> 0, timer |-> ROUND_TIME,
     gameTimer |-> 0, timers |-> <<>>, pos |-> 0, handles |-> 0,
     conns |-> 0, threw |-> "none", decs |-> 0, raised |-> FALSE]

\* ---------------------------------------------------------------- handlers
\* Faulty variant of OnConnection: the join is not put in newPlayers.
OnConnectionUnannounced(w) ==
    LET id == w.conns + 1 IN
    [w EXCEPT !.players = Put(@, id, NewPlayer),
              !.conns = id,
              !.threw = "none"]

\* io.on('connection'): the new socket gets the next id.
OnConnection(w) ==
    LET id == w.conns + 1 IN
    [w EXCEPT !.players = Put(@, id, NewPlayer),
              !.newPlayers = @ \cup {id},
              !.conns = id,
              !.threw = "none"]

\* socket.emit('init', ...) of a connection accepted in world w: the id and
\* gameState.players, which holds the new player by then (the model keeps
\* the keys of the snapshot).
InitMessage(w) ==
    [id |-> w.conns + 1, existingPlayers |-> DOMAIN OnConnection(w).players]

\* No 'init' message was sent.
NoInit == [id |-> 0]

\* Faulty variant of OnInputs: the new keys are added to the old ones.
OnInputsMerged(w, id, inputs) ==
    IF id \in DOMAIN w.players
    THEN [w EXCEPT !.players[id].inputs = @ \cup inputs, !.threw = "none"]
    ELSE [w EXCEPT !.threw = "none"]

\* socket.on('inputs'): the payload is stored as it came.
OnInputs(w, id, inputs) ==
    IF id \in DOMAIN w.players
    THEN [w EXCEPT !.players[id].inputs = inputs, !.threw = "none"]
    ELSE [w EXCEPT !.threw = "none"]

\* socket.on('mouse_move')
OnMouseMove(w, id, tx, ty) ==
    IF id \in DOMAIN w.players
    THEN [w EXCEPT !.players[id].targetX = tx, !.players[id].targetY = ty,
                   !.threw = "none"]
    ELSE [w EXCEPT !.threw = "none"]

\* Faulty variant of DashReady: the guard looks at the active window.
DashReadyWhenIdle(p) == ~p.isDashing

\* The guard of socket.on('dash').
DashReady(p) == p.dashCooldown <= 0

\* socket.on('dash'): the three assignments, then the write to playerUpdates,
\* a name that is declared only inside gameLoop: a ReferenceError
\* (sinceDash: history, see NewPlayer).
OnDash(w, id) ==
    IF id \in DOMAIN w.players /\ DashReady(w.players[id])
    THEN [w EXCEPT !.players[id].isDashing = TRUE,
                   !.players[id].dashTimer = DASH_DURATION,
                   !.players[id].dashCooldown = DASH_COOLDOWN,
                   !.players[id].sinceDash = 0,
                   !.threw = "ReferenceError"]
    ELSE [w EXCEPT !.threw = "none"]

\* Faulty variant of OnDisconnect: the leaver's bullets go with it.
OnDisconnectWithBullets(w, id) ==
    IF id \in DOMAIN w.players
    THEN [w EXCEPT !.players = Drop(@, {id}),
                   !.bullets = Drop(@, {b \in DOMAIN @ : @[b].ownerId = id}),
                   !.removedPlayers = Append(@, id),
                   !.threw = "none"]
    ELSE [w EXCEPT !.threw = "none"]

\* Faulty variant of OnDisconnect: the leave is not pushed on removedPlayers.
OnDisconnectUnrecorded(w, id) ==
    IF id \in DOMAIN w.players
    THEN [w EXCEPT !.players = Drop(@, {id}), !.threw = "none"]
    ELSE [w EXCEPT !.threw = "none"]

\* socket.on('disconnect')
OnDisconnect(w, id) ==
    [w EXCEPT !.removedPlayers = Append(@, id),
              !.players = Drop(@, {id}),
              !.threw = "none"]


\* ---------------------------------------------------------------- geometry
\* Math.sqrt(dx ** 2 + dy ** 2) < r for integer dx, dy, r: the square root
\* is monotonic and exact on the perfect square r * r.
Within(ax, ay, bx, by, r) ==
    (ax - bx) * (ax - bx) + (ay - by) * (ay - by) < r * r

\* Math.atan2(0, 0) is 0: a zero vector points along +x.
Heading(v) == IF v = <<0, 0>> THEN <<1, 0>> ELSE v
Dot(u, v) == u[1] * v[1] + u[2] * v[2]

\* How Math.abs(angleDiff), after the two normalising loops, compares with
\* MELEE_ARC / 2 = pi / 4: the unsigned angle between the facing vector f and
\* the bearing t is below pi/4 iff f.t > 0 and 2 (f.t)^2 > |f|^2 |t|^2.
\* When the angle is pi/4 on paper the doubles Math.atan2 returns decide, and
\* Math.atan2 is implementation-approximated: `rounding' is what they give.
ArcCompare(f, t, rounding) ==
    LET h == Heading(f)
        b == Heading(t)
        d == Dot(h, b)
        n == Dot(h, h) * Dot(b, b)
    IN  IF d > 0 /\ d * d > n \div 2 THEN "lt"
        ELSE IF d > 0 /\ n % 2 = 0 /\ d * d = n \div 2 THEN rounding
        ELSE "gt"

\* dist < (PLAYER_RADIUS + MELEE_RANGE)
InMeleeRange(p, t) == Within(t.x, t.y, p.x, p.y, PLAYER_RADIUS + MELEE_RANGE)

\* Faulty variant of InArc: <= in place of <.
InArcClosed(cmp) == cmp \in {"lt", "eq"}

\* Math.abs(angleDiff) < MELEE_ARC / 2
InArc(cmp) == cmp = "lt"

\* The range test and the arc test of the sword loop for one target.
SwordHits(p, t, rounding) ==
    /\ InMeleeRange(p, t)
    /\ InArc(ArcCompare(<<p.targetX - p.x, p.targetY - p.y>>,
                        <<t.x - p.x, t.y - p.y>>, rounding))

\* Faulty variant of MeleeDamaged: the reset is forgotten.
MeleeDamagedNoReset(t) == [t EXCEPT !.hp = @ - MELEE_DAMAGE]

\* HIT!: the damage and the reset of a target whose hp is used up.
MeleeDamaged(t) ==
    IF t.hp - MELEE_DAMAGE <= 0
    THEN [t EXCEPT !.hp = PLAYER_MAX_HP,
                   !.x = MAP_WIDTH \div 2, !.y = MAP_HEIGHT \div 2]
    ELSE [t EXCEPT !.hp = @ - MELEE_DAMAGE]

\* for (const id in gameState.players) of the sword branch.  The first hit
\* ends the loop: after the damage and the reset comes the write to
\* playerUpdates, which is not in scope in the handler (ReferenceError).
RECURSIVE SwordLoop(_, _, _, _)
SwordLoop(ps, me, todo, rounding) ==
    IF todo = {} THEN [players |-> ps, threw |-> "none", hit |-> 0]
    ELSE LET id == Least(todo) IN
         IF id = me THEN SwordLoop(ps, me, todo \ {id}, rounding)
         ELSE IF SwordHits(ps[me], ps[id], rounding)
              THEN [players |-> [ps EXCEPT ![id] = MeleeDamaged(@)],
                    threw |-> "ReferenceError", hit |-> id]
              ELSE SwordLoop(ps, me, todo \ {id}, rounding)

\* An 'attack' payload: type is "gun", "sword" or "null" (attackData itself
\* null or undefined); finite says whether targetX and targetY are numbers.
AttackData(type, tx, ty, finite) ==
    [type |-> type, targetX |-> tx, targetY |-> ty, finite |-> finite]

Sgn(a) == IF a > 0 THEN 1 ELSE IF a < 0 THEN 0 - 1 ELSE 0

\* The bullet the gun branch builds.  mag is 0 for a target on the player and
\* NaN for a target that is not a number; dx / mag and dy / mag are then NaN
\* (dirNaN).  The model aims along an axis only, where dx / mag is exactly
\* -1, 0 or 1.
MakeBullet(p, id, data) ==
    LET dx == data.targetX - p.x
        dy == data.targetY - p.y
        nan == ~data.finite \/ (dx = 0 /\ dy = 0)
    IN  [ownerId |-> id, x |-> p.x, y |-> p.y,
         dx |-> IF nan THEN 0 ELSE Sgn(dx),
         dy |-> IF nan THEN 0 ELSE Sgn(dy),
         dirNaN |-> nan, posNaN |-> FALSE]

\* Faulty variant of GunReady: the gun fires whatever its cooldown.
GunReadyUnguarded(p) == TRUE

\* The guards of the two branches of socket.on('attack').
GunReady(p) == p.gunCooldown <= 0
MeleeReady(p) == p.meleeCooldown <= 0

\* Faulty variant of GunBranch: the counter is read but not advanced.
GunBranchSameId(w, id, data) ==
    [w EXCEPT !.players[id].gunCooldown = GUN_COOLDOWN,
              !.players[id].sinceShot = 0,
              !.bullets = Put(@, w.bulletIdCounter,
                              MakeBullet(w.players[id], id, data)),
              !.threw = "none"]

\* The gun branch (sinceShot: history, see NewPlayer).
GunBranch(w, id, data) ==
    [w EXCEPT !.players[id].gunCooldown = GUN_COOLDOWN,
              !.players[id].sinceShot = 0,
              !.bullets = Put(@, w.bulletIdCounter,
                              MakeBullet(w.players[id], id, data)),
              !.bulletIdCounter = @ + 1,
              !.threw = "none"]

\* The sword branch.
SwordBranch(w, id, rounding) ==
    LET ps == [w.players EXCEPT ![id].meleeCooldown = MELEE_COOLDOWN]
        r == SwordLoop(ps, id, DOMAIN ps, rounding)
    IN  [w EXCEPT !.players = r.players, !.threw = r.threw]

\* socket.on('attack')
OnAttack(w, id, data, rounding) ==
    IF id \notin DOMAIN w.players THEN [w EXCEPT !.threw = "none"]
    ELSE IF data.type = "null" THEN [w EXCEPT !.threw = "TypeError"]
    ELSE IF data.type = "gun" /\ GunReady(w.players[id])
         THEN GunBranch(w, id, data)
    ELSE IF data.type = "sword" /\ MeleeReady(w.players[id])
         THEN SwordBranch(w, id, rounding)
    ELSE [w EXCEPT !.threw = "none"]


\* ---------------------------------------------------------------- gameLoop
\* if (t > 0) t -= TICK_RATE / 1000
Decay(t) == IF t > 0 THEN t - DT ELSE t

\* 1. Update Cooldowns and States, for one player (sinceShot, sinceDash:
\* history, see NewPlayer).
StepTimers(p) ==
    LET dashTimer == IF p.isDashing THEN p.dashTimer - DT ELSE p.dashTimer IN
    [p EXCEPT !.dashCooldown = Decay(@),
              !.gunCooldown = Decay(@),
              !.meleeCooldown = Decay(@),
              !.dashTimer = dashTimer,
              !.isDashing = @ /\ ~(dashTimer <= 0),
              !.sinceShot = IF @ < 0 THEN @ ELSE Min(MaxAge, @ + 1),
              !.sinceDash = IF @ < 0 THEN @ ELSE Min(MaxAge, @ + 1)]

\* stateChanged: the dash ended in this tick.
DashEnded(p) == p.isDashing /\ p.dashTimer - DT <= 0

\* Math.max(lo, Math.min(hi, v))
Clamp(lo, hi, v) == Max(lo, Min(hi, v))

\* Faulty variant of ClampX: the left wall is not enforced.
ClampXNoMin(x) == Min(MAP_WIDTH - PLAYER_RADIUS, x)

ClampX(x) == Clamp(0 + PLAYER_RADIUS, MAP_WIDTH - PLAYER_RADIUS, x)
ClampY(y) == Clamp(0 + PLAYER_RADIUS, MAP_HEIGHT - PLAYER_RADIUS, y)

\* hasMoved: some key is down.
HasMoved(p) == p.inputs \cap {"w", "a", "s", "d"} # {}

\* 2. Update Player Positions, for one player whose timers were stepped.
StepPosition(p) ==
    LET speed == IF p.isDashing THEN DASH_SPEED ELSE PLAYER_SPEED
        y1 == IF "w" \in p.inputs THEN p.y - speed ELSE p.y
        y2 == IF "s" \in p.inputs THEN y1 + speed ELSE y1
        x1 == IF "a" \in p.inputs THEN p.x - speed ELSE p.x
        x2 == IF "d" \in p.inputs THEN x1 + speed ELSE x1
    IN  IF HasMoved(p)
        THEN [p EXCEPT !.x = ClampX(x2), !.y = ClampY(y2)]
        ELSE p

\* Add to delta if moved, changed state, or has active cooldowns.
InUpdates(before, after) ==
    \/ HasMoved(after)
    \/ DashEnded(before)
    \/ after.isDashing
    \/ after.dashCooldown > 0
    \/ after.gunCooldown > 0
    \/ after.meleeCooldown > 0

\* The first loop of gameLoop.  Reading inputs.w of a null payload raises a
\* TypeError after the player's timers were stepped; the loop ends there.
RECURSIVE PlayerLoop(_, _, _)
PlayerLoop(ps, todo, updates) ==
    IF todo = {} THEN [players |-> ps, updates |-> updates, threw |-> "none"]
    ELSE LET id == Least(todo)
             timed == StepTimers(ps[id])
         IN  IF timed.inputs = NullInputs
             THEN [players |-> [ps EXCEPT ![id] = timed],
                   updates |-> updates, threw |-> "TypeError"]
             ELSE LET moved == StepPosition(timed) IN
                  PlayerLoop([ps EXCEPT ![id] = moved], todo \ {id},
                             IF InUpdates(ps[id], moved)
                             THEN updates \cup {id} ELSE updates)

\* bullet.x += bullet.dx * BULLET_SPEED: NaN once the direction is NaN.
Advance(b) ==
    IF b.dirNaN \/ b.posNaN THEN [b EXCEPT !.posNaN = TRUE]
    ELSE [b EXCEPT !.x = @ + b.dx * BULLET_SPEED, !.y = @ + b.dy * BULLET_SPEED]

\* Faulty variant of OutOfBounds: a bullet is out only once all of it is.
OutOfBoundsPastRadius(b) ==
    /\ ~b.posNaN
    /\ (b.x < 0 - BULLET_RADIUS \/ b.x > MAP_WIDTH + BULLET_RADIUS
        \/ b.y < 0 - BULLET_RADIUS \/ b.y > MAP_HEIGHT + BULLET_RADIUS)

\* Check map boundary: every comparison with NaN is false.
OutOfBounds(b) ==
    /\ ~b.posNaN
    /\ (b.x < 0 \/ b.x > MAP_WIDTH \/ b.y < 0 \/ b.y > MAP_HEIGHT)

\* dist < PLAYER_RADIUS + BULLET_RADIUS
Overlaps(b, p) ==
    /\ ~b.posNaN
    /\ Within(b.x, b.y, p.x, p.y, PLAYER_RADIUS + BULLET_RADIUS)

\* Faulty variant of GunDamaged: the damage is applied, the reset is forgotten.
GunDamagedNoReset(p, jitter) == [p EXCEPT !.hp = @ - GUN_DAMAGE]

\* The damage of one bullet and the reset of a player whose hp is used up;
\* jitter is (Math.random() - 0.5) * 100 for x and for y, an integer here.
GunDamaged(p, jitter) ==
    IF p.hp - GUN_DAMAGE <= 0
    THEN [p EXCEPT !.hp = PLAYER_MAX_HP,
                   !.x = MAP_WIDTH \div 2 + jitter[1],
                   !.y = MAP_HEIGHT \div 2 + jitter[2]]
    ELSE [p EXCEPT !.hp = @ - GUN_DAMAGE]

\* if (player.hp <= 0), after player.hp -= GUN_DAMAGE
Lethal(p) == p.hp - GUN_DAMAGE <= 0

\* Faulty variant of FirstHit: the owner is not skipped.
FirstHitAnyone(b, ps) ==
    LET cands == {id \in DOMAIN ps : Overlaps(b, ps[id])} IN
    IF cands = {} THEN 0 ELSE Least(cands)

\* Faulty variant of FirstHit: the loop stops at the last overlapping player
\* in the order of the players object, not the first.
FirstHitLast(b, ps) ==
    LET cands == {id \in DOMAIN ps : b.ownerId # id /\ Overlaps(b, ps[id])} IN
    IF cands = {} THEN 0 ELSE CHOOSE m \in cands : \A n \in cands : n <= m

\* The player the collision loop of one bullet stops at, or 0: the first in
\* the order of the players object that is not the owner and overlaps.
FirstHit(b, ps) ==
    LET cands == {id \in DOMAIN ps : b.ownerId # id /\ Overlaps(b, ps[id])} IN
    IF cands = {} THEN 0 ELSE Least(cands)

\* 3. Update Bullet Positions & Check Hits: bullets in ascending id order.
\* st is [players, bullets, removedBullets, updates] and, for the record,
\* hits (<<bullet, player, lethal>> for each collision, in order) and died
\* (the players whose hp a bullet used up).
RECURSIVE BulletLoop(_, _, _)
BulletLoop(st, todo, jitter) ==
    IF todo = {} THEN st
    ELSE LET bid == Least(todo)
             b == Advance(st.bullets[bid])
             bs == [st.bullets EXCEPT ![bid] = b]
             hit == FirstHit(b, st.players)
         IN  IF OutOfBounds(b)
             THEN BulletLoop([st EXCEPT !.bullets = bs,
                                        !.removedBullets = Append(@, bid)],
                             todo \ {bid}, jitter)
             ELSE IF hit # 0
             THEN BulletLoop([st EXCEPT
                                 !.bullets = bs,
                                 !.players[hit] = GunDamaged(@, jitter),
                                 !.removedBullets = Append(@, bid),
                                 !.updates = @ \cup {hit},
                                 !.hits = Append(@, <<bid, hit, Lethal(st.players[hit])>>),
                                 !.died = IF Lethal(st.players[hit])
                                          THEN @ \cup {hit} ELSE @],
                             todo \ {bid}, jitter)
             ELSE BulletLoop([st EXCEPT !.bullets = bs], todo \ {bid}, jitter)

\* Faulty variant of Cleanup: only the bullets that left the map are deleted.
CleanupOutside(bs, removed) ==
    Drop(bs, {b \in SeqSet(removed) : OutOfBounds(bs[b])})

\* for (const id of removedBullets) delete gameState.bullets[id]
Cleanup(bs, removed) == Drop(bs, SeqSet(removed))

\* What one run of gameLoop leaves: the world, and the locals of the run.
GameLoopRun(w, jitter) ==
    LET pl == PlayerLoop(w.players, DOMAIN w.players, {})
        bl == BulletLoop([players |-> pl.players, bullets |-> w.bullets,
                          removedBullets |-> <<>>, updates |-> pl.updates,
                          hits |-> <<>>, died |-> {}],
                         DOMAIN w.bullets, jitter)
        kept == Cleanup(bl.bullets, bl.removedBullets)
    IN  IF pl.threw # "none"
        THEN [world |-> [w EXCEPT !.players = pl.players, !.threw = pl.threw],
              removedBullets |-> <<>>, hits |-> <<>>, died |-> {},
              updates |-> pl.updates]
        ELSE [world |-> [w EXCEPT
                            !.players = bl.players,
                            !.bullets = kept,
                            !.delta = [updates |-> bl.updates,
                                       new |-> w.newPlayers,
                                       removed |-> w.removedPlayers,
                                       bullets |-> kept],
                            !.newPlayers = {},
                            !.removedPlayers = <<>>,
                            !.threw = "none"],
              removedBullets |-> bl.removedBullets, hits |-> bl.hits,
              died |-> bl.died, updates |-> bl.updates]

\* function gameLoop()
GameLoop(w, jitter) == GameLoopRun(w, jitter).world

\* setInterval(gameLoop, TICK_RATE): n runs with no other callback between.
RECURSIVE GameLoops(_, _, _)
GameLoops(w, n, jitter) ==
    IF n = 0 THEN w
    ELSE IF n = 1 THEN GameLoop(w, jitter)
    ELSE LET half == GameLoops(w, n \div 2, jitter) IN
         IF half.conns < 0 THEN half
         ELSE GameLoops(half, n - n \div 2, jitter)


\* ------------------------------------------------------------------ scenes
\* A scene is the world a fixed sequence of callbacks leaves when run from
\* EmptyWorld with the operators above: a state the program reaches, far
\* deeper than the step bound reaches.
Ev(e, id) == [e |-> e, id |-> id]
EvInputs(id, keys) == [e |-> "inputs", id |-> id, keys |-> keys]
EvSword(id) == [e |-> "sword", id |-> id]
EvGun(id, dx, dy) == [e |-> "gun", id |-> id, dx |-> dx, dy |-> dy]
EvLoops(n) == [e |-> "gameLoop", n |-> n]

RunEvent(w, ev) ==
    IF ev.e = "connection" THEN OnConnection(w)
    ELSE IF ev.e = "inputs" THEN OnInputs(w, ev.id, ev.keys)
    ELSE IF ev.e = "dash" THEN OnDash(w, ev.id)
    ELSE IF ev.e = "sword"
         THEN OnAttack(w, ev.id, AttackData("sword", 0, 0, TRUE), "eq")
    ELSE IF ev.e = "gun"
         THEN OnAttack(w, ev.id,
                       AttackData("gun", w.players[ev.id].x + ev.dx,
                                  w.players[ev.id].y + ev.dy, TRUE), "eq")
    ELSE GameLoops(w, ev.n, <<0, 0>>)

RECURSIVE Run(_, _)
Run(w, script) ==
    IF script = <<>> THEN w
    ELSE LET w1 == RunEvent(w, Head(script)) IN
         IF w1.conns < 0 THEN w1 ELSE Run(w1, Tail(script))

\* Players 1 and 2 on the spawn point; three sword hits and two bullets of
\* player 1 have brought player 2 to 5 hp; every cooldown has run out.
SceneBrawl ==
    Run(EmptyWorld,
        <<Ev("connection", 0), Ev("connection", 0),
          EvSword(1), EvLoops(48), EvSword(1), EvLoops(48), EvSword(1),
          EvGun(1, 100, 0), EvLoops(19), EvGun(1, 100, 0), EvLoops(48)>>)

\* The same, after which player 2 has walked 150 px to the right and player
\* 1 has fired at it: the bullet is one tick short of player 2, and the gun
\* of player 1 is ready again.
SceneDuel ==
    Run(SceneBrawl,
        <<EvInputs(2, {"d"}), EvLoops(75), EvInputs(2, NoKeys),
          EvGun(1, 100, 0), EvLoops(19)>>)

\* Players 1 and 2 have walked to the left wall.  Player 1 stands at x = 12
\* and has just fired to the left; player 2, at x = 26, holds "a" and has
\* just started a dash.
SceneWall ==
    Run(EmptyWorld,
        <<Ev("connection", 0), Ev("connection", 0),
          EvInputs(1, {"a"}), EvInputs(2, {"a"}), EvLoops(187),
          EvInputs(2, NoKeys), EvLoops(7), EvInputs(1, NoKeys), EvLoops(1),
          EvInputs(2, {"a"}), Ev("dash", 2), EvGun(1, 0 - 100, 0)>>)

\* Player 1 swung its sword 47 ticks ago, fired 18 ticks ago and started a
\* dash 12 ticks ago: each timer is one tick short of running out.
SceneCooling ==
    Run(EmptyWorld,
        <<Ev("connection", 0), Ev("connection", 0),
          EvSword(1), EvLoops(29), EvGun(1, 0 - 100, 0), EvLoops(6),
          Ev("dash", 1), EvLoops(12)>>)

\* Player 1 started a dash 11 ticks ago.
SceneDash ==
    Run(EmptyWorld,
        <<Ev("connection", 0), Ev("connection", 0), Ev("dash", 1), EvLoops(11)>>)

Scenes ==
    {EmptyWorld, SceneBrawl, SceneDuel, SceneWall, SceneCooling, SceneDash}

\* ------------------------------------------------------------------ inputs
\* 'inputs' payloads: no key, one key, two keys at right angles, two opposed
\* keys, and null.
InputChoices == {NoKeys, {"a"}, {"s", "d"}, {"w", "s"}, NullInputs}
\* 'mouse_move' payloads, as offsets from the sender's position.
AimOffsets == {<<0, 0 - 20>>}
\* targetX, targetY of a gun attack, as offsets from the sender's position
\* (<<0, 0>>: the target is the origin).
GunOffsets == {<<0 - 100, 0>>, <<0, 0>>}
\* What the doubles give for an angle that is pi/4 on paper.
Roundings == {"lt", "eq", "gt"}
\* (Math.random() - 0.5) * 100 lies in [-50, 50); it is exactly 35 for
\* Math.random() = 0.85 and exactly 0 for 0.5.
Jitters == {<<0, 0>>, <<0 - 50, 49>>, <<35, 0>>}

\* ------------------------------------------------------------ state machine
World ==
    [players |-> players, bullets |-> bullets,
     bulletIdCounter |-> bulletIdCounter, newPlayers |-> newPlayers,
     removedPlayers |-> removedPlayers, delta |-> delta, conns |-> conns,
     threw |-> threw]

Install(w) ==
    /\ players' = w.players
    /\ bullets' = w.bullets
    /\ bulletIdCounter' = w.bulletIdCounter
    /\ newPlayers' = w.newPlayers
    /\ removedPlayers' = w.removedPlayers
    /\ delta' = w.delta
    /\ conns' = w.conns
    /\ threw' = w.threw

\* What `last' holds when nothing has run yet.
NoLast ==
    [op |-> "init", id |-> 0, type |-> "", ready |-> FALSE, zero |-> FALSE,
     edge |-> {}, rounding |-> "eq", removedBullets |-> <<>>, hits |-> <<>>,
     updates |-> {}, hit |-> 0, died |-> {}, sent |-> FALSE,
     pre |-> EmptyWorld, window |-> {},
     since |-> [joined |-> {}, left |-> {}, hurt |-> {}, struck |-> {},
                live |-> {}],
     init |-> NoInit,
     keys |-> NoKeys, aim |-> <<0, 0>>]

Init ==
    \E scene \in Scenes :
        /\ players = scene.players
        /\ bullets = scene.bullets
        /\ bulletIdCounter = scene.bulletIdCounter
        /\ newPlayers = scene.newPlayers
        /\ removedPlayers = scene.removedPlayers
        /\ delta = scene.delta
        /\ conns = scene.conns
        /\ threw = scene.threw
        /\ since = [joined |-> scene.newPlayers,
                    left |-> SeqSet(scene.removedPlayers), hurt |-> {},
                    struck |-> {},
                    live |-> (DOMAIN scene.players
                                 \cup SeqSet(scene.removedPlayers))
                             \ scene.newPlayers]
        /\ last = NoLast
        /\ steps = 0
        /\ drawing = DrawEmpty

Budget == steps < MaxSteps /\ steps' = steps + 1 /\ UNCHANGED drawing

Connection ==
    /\ Budget
    /\ conns < MaxConns
    /\ Install(OnConnection(World))
    /\ since' = [since EXCEPT !.joined = @ \cup {conns + 1}]
    /\ last' = [NoLast EXCEPT !.pre = World, !.op = "connection", !.id = conns + 1,
                              !.init = InitMessage(World)]

Inputs ==
    \E id \in DOMAIN players, keys \in InputChoices :
        /\ Budget
        /\ Install(OnInputs(World, id, keys))
        /\ last' = [NoLast EXCEPT !.pre = World, !.op = "inputs", !.id = id,
                                  !.keys = keys]
        /\ UNCHANGED since

MouseMove ==
    \E id \in DOMAIN players, off \in AimOffsets :
        /\ Budget
        /\ Install(OnMouseMove(World, id, players[id].x + off[1],
                               players[id].y + off[2]))
        /\ last' = [NoLast EXCEPT !.pre = World, !.op = "mouse_move", !.id = id,
                                  !.aim = <<players[id].x + off[1],
                                            players[id].y + off[2]>>]
        /\ UNCHANGED since

Dash ==
    \E id \in DOMAIN players :
        /\ Budget
        /\ Install(OnDash(World, id))
        /\ last' = [NoLast EXCEPT !.pre = World, !.op = "dash", !.id = id,
                                  !.ready = DashReady(players[id])]
        /\ UNCHANGED since

\* A gun attack; finite = FALSE: targetX and targetY are missing.
Gun ==
    \E id \in DOMAIN players, off \in GunOffsets, finite \in BOOLEAN :
        /\ Budget
        /\ finite \/ off = <<0, 0>>
        /\ Install(OnAttack(World, id,
                            AttackData("gun", players[id].x + off[1],
                                       players[id].y + off[2], finite), "eq"))
        /\ last' = [NoLast EXCEPT !.pre = World, !.op = "attack", !.id = id,
                                  !.type = "gun",
                                  !.ready = GunReady(players[id]),
                                  !.zero = finite /\ off = <<0, 0>>]
        /\ UNCHANGED since

\* The targets of a swing of p that are in range at pi/4 on paper.
OnEdge(ps, id) ==
    {t \in DOMAIN ps \ {id} :
        /\ InMeleeRange(ps[id], ps[t])
        /\ ArcCompare(<<ps[id].targetX - ps[id].x, ps[id].targetY - ps[id].y>>,
                      <<ps[t].x - ps[id].x, ps[t].y - ps[id].y>>, "edge") = "edge"}

Sword ==
    \E id \in DOMAIN players, rounding \in Roundings :
        /\ Budget
        /\ rounding = "eq" \/ (MeleeReady(players[id]) /\ OnEdge(players, id) # {})
        /\ LET w == OnAttack(World, id, AttackData("sword", 0, 0, TRUE), rounding)
               r == SwordLoop(players, id, DOMAIN players, rounding)
               hit == IF MeleeReady(players[id]) THEN r.hit ELSE 0
           IN  /\ Install(w)
               /\ since' = [since EXCEPT
                               !.hurt = IF hit # 0 THEN @ \cup {hit} ELSE @]
               /\ last' = [NoLast EXCEPT
                              !.pre = World,
                              !.op = "attack", !.id = id, !.type = "sword",
                              !.ready = MeleeReady(players[id]),
                              !.edge = OnEdge(players, id),
                              !.rounding = rounding, !.hit = hit,
                              !.died = IF hit # 0 /\ players[hit].hp - MELEE_DAMAGE <= 0
                                       THEN {hit} ELSE {}]

NullAttack ==
    \E id \in DOMAIN players :
        /\ Budget
        /\ Install(OnAttack(World, id, AttackData("null", 0, 0, FALSE), "eq"))
        /\ last' = [NoLast EXCEPT !.pre = World, !.op = "attack", !.id = id,
                                  !.type = "null"]
        /\ UNCHANGED since

Disconnect ==
    \E id \in DOMAIN players :
        /\ Budget
        /\ Install(OnDisconnect(World, id))
        /\ since' = [since EXCEPT !.left = @ \cup {id}]
        /\ last' = [NoLast EXCEPT !.pre = World, !.op = "disconnect", !.id = id]

Tick ==
    \E jitter \in Jitters :
        /\ Budget
        /\ LET r == GameLoopRun(World, jitter) IN
           /\ jitter = <<0, 0>> \/ r.died # {}
           /\ Install(r.world)
           /\ since' = IF r.world.threw = "none"
                       THEN [joined |-> {}, left |-> {}, hurt |-> {},
                             struck |-> since.struck
                                 \cup {r.hits[i][1] : i \in DOMAIN r.hits},
                             live |-> DOMAIN r.world.players]
                       ELSE since
           /\ last' = [NoLast EXCEPT
                          !.pre = World,
                          !.op = "gameLoop",
                          !.window = since.joined \cap since.left,
                          !.since = since,
                          !.removedBullets = r.removedBullets,
                          !.hits = r.hits, !.updates = r.updates,
                          !.died = r.died,
                          !.sent = (r.world.threw = "none")]

Next ==
    \/ Connection
    \/ Inputs
    \/ MouseMove
    \/ Dash
    \/ Gun
    \/ Sword
    \/ NullAttack
    \/ Disconnect
    \/ Tick

Spec == Init /\ [][Next]_vars

-----------------------------------------------------------------------------
(* src/server.js: the earlier build of the same server.  Players move on    *)
(* the x/z plane, 'shoot' takes the place of 'attack', there is no dash and *)
(* no sword, and 'init' carries the socket id alone.  Lengths are in tenths *)
(* of a unit (PLAYER_SPEED 0.1 is 1), so that every modelled position is an *)
(* integer; the state variables are those of the module above.              *)

SrvPlayerSpeed == 1
SrvPlayerRadius == 5
SrvBulletSpeed == 3
SrvBulletRadius == 1
BULLET_DAMAGE == 10
MAP_SIZE == 250

\* (Math.random() - 0.5) * 20 for x and for z: the spawn points the model draws.
SrvSpawns == {<<0, 0>>, <<4, 0>>}

SrvNewPlayer(spawn) ==
    [x |-> spawn[1], z |-> spawn[2], hp |-> PLAYER_MAX_HP,
     maxHp |-> PLAYER_MAX_HP, inputs |-> NoKeys]

\* io.on('connection')
SrvOnConnection(w, spawn) ==
    LET id == w.conns + 1 IN
    [w EXCEPT !.players = Put(@, id, SrvNewPlayer(spawn)),
              !.newPlayers = @ \cup {id},
              !.conns = id,
              !.threw = "none"]

\* socket.emit('init', socket.id)
SrvInitMessage(w) == [id |-> w.conns + 1]

\* socket.on('inputs')
SrvOnInputs(w, id, inputs) ==
    IF id \in DOMAIN w.players
    THEN [w EXCEPT !.players[id].inputs = inputs, !.threw = "none"]
    ELSE [w EXCEPT !.threw = "none"]

\* A 'shoot' payload; null: shootData itself is null or undefined.
ShootData(null, sx, sz, tx, tz) ==
    [null |-> null, startX |-> sx, startZ |-> sz, targetX |-> tx, targetZ |-> tz]

\* The bullet 'shoot' builds: it starts where the client says; the
\* direction is NaN for a target on the start point.
SrvMakeBullet(id, data) ==
    LET dx == data.targetX - data.startX
        dz == data.targetZ - data.startZ
        nan == dx = 0 /\ dz = 0
    IN  [ownerId |-> id, x |-> data.startX, z |-> data.startZ,
         dx |-> IF nan THEN 0 ELSE Sgn(dx),
         dz |-> IF nan THEN 0 ELSE Sgn(dz),
         dirNaN |-> nan, posNaN |-> FALSE]

\* socket.on('shoot')
SrvOnShoot(w, id, data) ==
    IF id \notin DOMAIN w.players \/ w.players[id].hp <= 0
    THEN [w EXCEPT !.threw = "none"]
    ELSE IF data.null THEN [w EXCEPT !.threw = "TypeError"]
    ELSE [w EXCEPT !.bullets = Put(@, w.bulletIdCounter, SrvMakeBullet(id, data)),
                   !.bulletIdCounter = @ + 1,
                   !.threw = "none"]

\* socket.on('disconnect')
SrvOnDisconnect(w, id) ==
    IF id \in DOMAIN w.players
    THEN [w EXCEPT !.players = Drop(@, {id}),
                   !.removedPlayers = Append(@, id),
                   !.threw = "none"]
    ELSE [w EXCEPT !.threw = "none"]

\* hasMoved of server.js: some key is down.
SrvHasMoved(p) == p.inputs \cap {"w", "a", "s", "d"} # {}

SrvClamp(v) == Max(0 - MAP_SIZE, Min(MAP_SIZE, v))

\* 1. Update Player Positions, for one player.
SrvStepPosition(p) ==
    LET z1 == IF "w" \in p.inputs THEN p.z - SrvPlayerSpeed ELSE p.z
        z2 == IF "s" \in p.inputs THEN z1 + SrvPlayerSpeed ELSE z1
        x1 == IF "a" \in p.inputs THEN p.x - SrvPlayerSpeed ELSE p.x
        x2 == IF "d" \in p.inputs THEN x1 + SrvPlayerSpeed ELSE x1
    IN  IF SrvHasMoved(p)
        THEN [p EXCEPT !.x = SrvClamp(x2), !.z = SrvClamp(z2)]
        ELSE p

\* The first loop of gameLoop; inputs.w of a null payload raises a TypeError.
RECURSIVE SrvPlayerLoop(_, _, _)
SrvPlayerLoop(ps, todo, updates) ==
    IF todo = {} THEN [players |-> ps, updates |-> updates, threw |-> "none"]
    ELSE LET id == Least(todo) IN
         IF ps[id].inputs = NullInputs
         THEN [players |-> ps, updates |-> updates, threw |-> "TypeError"]
         ELSE SrvPlayerLoop([ps EXCEPT ![id] = SrvStepPosition(@)], todo \ {id},
                            IF SrvHasMoved(ps[id]) THEN updates \cup {id}
                            ELSE updates)

\* 2. Update Bullet Positions, for one bullet.
SrvAdvance(b) ==
    IF b.dirNaN \/ b.posNaN THEN [b EXCEPT !.posNaN = TRUE]
    ELSE [b EXCEPT !.x = @ + b.dx * SrvBulletSpeed, !.z = @ + b.dz * SrvBulletSpeed]

SrvOutOfBounds(b) ==
    /\ ~b.posNaN
    /\ (b.x > MAP_SIZE \/ b.x < 0 - MAP_SIZE \/ b.z > MAP_SIZE \/ b.z < 0 - MAP_SIZE)

\* dist < PLAYER_RADIUS + BULLET_RADIUS
SrvOverlaps(b, p) ==
    /\ ~b.posNaN
    /\ Within(b.x, b.z, p.x, p.z, SrvPlayerRadius + SrvBulletRadius)

\* player.hp -= BULLET_DAMAGE and the reset; spawn is the random respawn point.
SrvDamaged(p, spawn) ==
    IF p.hp - BULLET_DAMAGE <= 0
    THEN [p EXCEPT !.hp = PLAYER_MAX_HP, !.x = spawn[1], !.z = spawn[2]]
    ELSE [p EXCEPT !.hp = @ - BULLET_DAMAGE]

SrvFirstHit(b, ps) ==
    LET cands == {id \in DOMAIN ps : b.ownerId # id /\ SrvOverlaps(b, ps[id])} IN
    IF cands = {} THEN 0 ELSE Least(cands)

\* 3. Check Collisions: the bullets not yet in removedBullets, in id order.
RECURSIVE SrvCollide(_, _, _)
SrvCollide(st, todo, spawn) ==
    IF todo = {} THEN st
    ELSE LET bid == Least(todo)
             hit == SrvFirstHit(st.bullets[bid], st.players)
         IN  IF bid \in SeqSet(st.removedBullets) \/ hit = 0
             THEN SrvCollide(st, todo \ {bid}, spawn)
             ELSE SrvCollide([st EXCEPT
                                 !.players[hit] = SrvDamaged(@, spawn),
                                 !.removedBullets = Append(@, bid),
                                 !.updates = @ \cup {hit},
                                 !.hits = Append(@, <<bid, hit,
                                     st.players[hit].hp - BULLET_DAMAGE <= 0>>),
                                 !.died = IF st.players[hit].hp - BULLET_DAMAGE <= 0
                                          THEN @ \cup {hit} ELSE @],
                             todo \ {bid}, spawn)

\* The ids a sequence of pushes holds for the bullets of bs that are out.
RECURSIVE SrvOutList(_, _)
SrvOutList(bs, todo) ==
    IF todo = {} THEN <<>>
    ELSE LET bid == Least(todo) IN
         (IF SrvOutOfBounds(bs[bid]) THEN <<bid>> ELSE <<>>)
             \o SrvOutList(bs, todo \ {bid})

\* function gameLoop() of server.js, with its locals.
SrvGameLoopRun(w, spawn) ==
    LET pl == SrvPlayerLoop(w.players, DOMAIN w.players, {})
        moved == [b \in DOMAIN w.bullets |-> SrvAdvance(w.bullets[b])]
        co == SrvCollide([players |-> pl.players, bullets |-> moved,
                          removedBullets |-> SrvOutList(moved, DOMAIN moved),
                          updates |-> pl.updates, hits |-> <<>>, died |-> {}],
                         DOMAIN moved, spawn)
        kept == Drop(co.bullets, SeqSet(co.removedBullets))
    IN  IF pl.threw # "none"
        THEN [world |-> [w EXCEPT !.players = pl.players, !.threw = pl.threw],
              removedBullets |-> <<>>, hits |-> <<>>, died |-> {},
              updates |-> pl.updates]
        ELSE [world |-> [w EXCEPT
                            !.players = co.players,
                            !.bullets = kept,
                            !.delta = [updates |-> co.updates,
                                       new |-> w.newPlayers,
                                       removed |-> w.removedPlayers,
                                       bullets |-> kept],
                            !.newPlayers = {},
                            !.removedPlayers = <<>>,
                            !.threw = "none"],
              removedBullets |-> co.removedBullets, hits |-> co.hits,
              died |-> co.died, updates |-> co.updates]

\* The world after two connections and a first tick.
SrvScenePair ==
    SrvGameLoopRun(SrvOnConnection(SrvOnConnection(EmptyWorld, <<0, 0>>),
                                   <<4, 0>>), <<0, 0>>).world

SrvScenes == {EmptyWorld, SrvScenePair}

\* The 'shoot' payloads player p sends: from where it stands along +x, at
\* its own start point, or no payload at all.
SrvShots(p) ==
    {ShootData(FALSE, p.x, p.z, p.x + 10, p.z),
     ShootData(FALSE, p.x, p.z, p.x, p.z),
     ShootData(TRUE, 0, 0, 0, 0)}

SrvInit ==
    \E scene \in SrvScenes :
        /\ players = scene.players
        /\ bullets = scene.bullets
        /\ bulletIdCounter = scene.bulletIdCounter
        /\ newPlayers = scene.newPlayers
        /\ removedPlayers = scene.removedPlayers
        /\ delta = scene.delta
        /\ conns = scene.conns
        /\ threw = scene.threw
        /\ since = [joined |-> scene.newPlayers,
                    left |-> SeqSet(scene.removedPlayers), hurt |-> {},
                    struck |-> {},
                    live |-> (DOMAIN scene.players
                                 \cup SeqSet(scene.removedPlayers))
                             \ scene.newPlayers]
        /\ last = NoLast
        /\ steps = 0
        /\ drawing = DrawEmpty

SrvConnection ==
    \E spawn \in SrvSpawns :
        /\ Budget
        /\ conns < MaxConns
        /\ Install(SrvOnConnection(World, spawn))
        /\ since' = [since EXCEPT !.joined = @ \cup {conns + 1}]
        /\ last' = [NoLast EXCEPT !.pre = World, !.op = "connection",
                                  !.id = conns + 1,
                                  !.init = SrvInitMessage(World)]

SrvInputs ==
    \E id \in DOMAIN players, keys \in InputChoices :
        /\ Budget
        /\ Install(SrvOnInputs(World, id, keys))
        /\ last' = [NoLast EXCEPT !.pre = World, !.op = "inputs", !.id = id,
                                  !.keys = keys]
        /\ UNCHANGED since

SrvShoot ==
    \E id \in DOMAIN players :
        \E data \in SrvShots(players[id]) :
            /\ Budget
            /\ Install(SrvOnShoot(World, id, data))
            /\ last' = [NoLast EXCEPT !.pre = World, !.op = "shoot", !.id = id,
                                      !.zero = ~data.null /\ data.targetX = data.startX]
            /\ UNCHANGED since

SrvDisconnect ==
    \E id \in DOMAIN players :
        /\ Budget
        /\ Install(SrvOnDisconnect(World, id))
        /\ since' = [since EXCEPT !.left = @ \cup {id}]
        /\ last' = [NoLast EXCEPT !.pre = World, !.op = "disconnect", !.id = id]

SrvTick ==
    \E spawn \in SrvSpawns :
        /\ Budget
        /\ LET r == SrvGameLoopRun(World, spawn) IN
           /\ spawn = <<0, 0>> \/ r.died # {}
           /\ Install(r.world)
           /\ since' = IF r.world.threw = "none"
                       THEN [joined |-> {}, left |-> {}, hurt |-> {},
                             struck |-> since.struck
                                 \cup {r.hits[i][1] : i \in DOMAIN r.hits},
                             live |-> DOMAIN r.world.players]
                       ELSE since
           /\ last' = [NoLast EXCEPT
                          !.pre = World,
                          !.op = "gameLoop",
                          !.window = since.joined \cap since.left,
                          !.since = since,
                          !.removedBullets = r.removedBullets,
                          !.hits = r.hits, !.updates = r.updates,
                          !.died = r.died,
                          !.sent = (r.world.threw = "none")]

SrvNext ==
    \/ SrvConnection
    \/ SrvInputs
    \/ SrvShoot
    \/ SrvDisconnect
    \/ SrvTick

SpecServerJs == SrvInit /\ [][SrvNext]_vars

-----------------------------------------------------------------------------
(* src/unnamed/part_002: the drawing and guessing game.  Time is real here: *)
(* a timeout or interval comes due a whole number of seconds after it was   *)
(* set, at the same instant within the second, and the timers of one second *)
(* fire in the order of those instants.                                     *)

InsertAt(s, j, v) == SubSeq(s, 1, j - 1) \o <<v>> \o SubSeq(s, j, Len(s))
RemoveAt(s, j) == SubSeq(s, 1, j - 1) \o SubSeq(s, j + 1, Len(s))
IndexOf(s, v) ==
    IF \E i \in DOMAIN s : s[i] = v THEN Least({i \in DOMAIN s : s[i] = v})
    ELSE 0

\* setTimeout / setInterval called now: the timer comes due `delay' seconds
\* from this instant and gets the next handle.
SetTimer(g, kind, delay) ==
    [g EXCEPT !.timers = InsertAt(@, g.pos + 1,
                                  [kind |-> kind, due |-> delay,
                                   h |-> g.handles + 1]),
              !.pos = @ + 1,
              !.handles = @ + 1]

\* if (gameTimer) clearInterval(gameTimer): the interval with that handle
\* stops if it is still set; the variable keeps the handle.
ClearInterval(g) ==
    LET S == {j \in DOMAIN g.timers : g.timers[j].h = g.gameTimer} IN
    IF g.gameTimer = 0 \/ S = {} THEN g
    ELSE LET j == Least(S) IN
         [g EXCEPT !.timers = RemoveAt(@, j),
                   !.pos = IF j <= g.pos THEN @ - 1 ELSE @]

\* function getNextDrawerId()
GetNextDrawerId(g) ==
    IF Len(g.players) = 0 THEN 0
    ELSE IF g.currentDrawerId = 0 THEN g.players[1]
    ELSE g.players[(IndexOf(g.players, g.currentDrawerId) % Len(g.players)) + 1]

\* function endGame()
EndGame(g) ==
    LET c == ClearInterval(g) IN
    SetTimer([c EXCEPT !.isRoundActive = FALSE,
                       !.currentRound = 0,
                       !.score = [id \in DOMAIN c.score |-> 0]],
             "restart", RESTART_TIME)

\* function startNewRound(), up to and including the setTimeout.
StartNewRound(g) ==
    LET c == ClearInterval(g) IN
    IF Len(c.players) < 2 THEN [c EXCEPT !.isRoundActive = FALSE]
    ELSE IF c.currentRound >= MAX_ROUNDS THEN EndGame(c)
    ELSE SetTimer([c EXCEPT !.currentRound = @ + 1,
                            !.isRoundActive = FALSE,
                            !.currentDrawerId = GetNextDrawerId(c),
                            !.timer = ROUND_TIME],
                  "getReady", GET_READY_TIME)

\* io.to(id).broadcast.emit('word_hint', ...) reads a member of what the
\* library's io.to returns: the call is made, or `broadcast' is undefined
\* and the statement raises.  The library is not part of the source.
HintOutcomes == {"sent", "TypeError"}

\* The callback of the get-ready timeout: the round becomes active, the
\* drawer's record is read (a TypeError if it is gone), the hint goes out
\* (or raises), the interval is set.
GetReady(g, hint) ==
    IF g.currentDrawerId \notin SeqSet(g.players) \/ hint # "sent"
    THEN [g EXCEPT !.isRoundActive = TRUE, !.threw = "TypeError"]
    ELSE LET s == SetTimer([g EXCEPT !.isRoundActive = TRUE], "interval", 1)
         IN  [s EXCEPT !.gameTimer = s.handles]

\* The callback of the interval (revealHint writes the hint only).
IntervalTick(g) ==
    LET t == [g EXCEPT !.timer = @ - 1, !.decs = @ + 1] IN
    IF t.timer <= 0 THEN StartNewRound(t) ELSE t

\* io.on('connection') of part_002.
DrawOnConnection(g) ==
    LET id == g.conns + 1
        j == [g EXCEPT !.players = Append(@, id),
                       !.score = Put(@, id, 0),
                       !.conns = id]
    IN  IF Len(j.players) = 2 /\ ~j.isRoundActive /\ j.currentRound = 0
        THEN StartNewRound(j) ELSE j

\* socket.on('disconnect') of part_002.
DrawOnDisconnect(g, id) ==
    IF id \notin SeqSet(g.players) THEN g
    ELSE LET l == [g EXCEPT !.players = RemoveAt(@, IndexOf(g.players, id)),
                            !.score = Drop(@, {id})]
         IN  IF Len(l.players) < 2
             THEN [ClearInterval(l) EXCEPT !.isRoundActive = FALSE,
                                           !.currentRound = 0]
             ELSE IF id = l.currentDrawerId THEN StartNewRound(l)
             ELSE l

\* socket.on('chat_message'); right: the message is the word.  A right guess
\* pays the guesser, then the drawer (a TypeError if its record is gone),
\* then starts a round.
OnChatMessage(g, id, right) ==
    IF id \notin SeqSet(g.players) THEN g
    ELSE IF g.isRoundActive /\ id # g.currentDrawerId /\ right
    THEN LET paid == [g EXCEPT !.score[id] =
                                  @ + 5 + (g.timer \div (ROUND_TIME \div 10))]
         IN  IF g.currentDrawerId \notin SeqSet(g.players)
             THEN [paid EXCEPT !.threw = "TypeError"]
             ELSE StartNewRound([paid EXCEPT !.score[g.currentDrawerId] = @ + 5])
    ELSE g

\* The timers that come due in the current second and have not fired yet.
DueNow(g) == {j \in DOMAIN g.timers : j > g.pos /\ g.timers[j].due = 0}

\* The next timer of the current second fires.  A timeout is spent; an
\* interval is set again for the same instant of the next second.
FireNext(g, hint) ==
    LET j == Least(DueNow(g))
        kind == g.timers[j].kind
    IN  IF kind = "interval"
        THEN IntervalTick([g EXCEPT !.timers[j].due = 1, !.pos = j])
        ELSE LET spent == [g EXCEPT !.timers = RemoveAt(@, j), !.pos = j - 1]
             IN  IF kind = "getReady" THEN GetReady(spent, hint)
                 ELSE StartNewRound(spent)

\* The seconds until the next timer comes due.
MinDue(g) == Least({g.timers[j].due : j \in DOMAIN g.timers})

\* d seconds pass in which no timer fires.
Elapse(g, d) ==
    [g EXCEPT !.timers = [j \in DOMAIN @ |-> [@[j] EXCEPT !.due = @ - d]],
              !.pos = 0,
              !.decs = 0]

\* What a callback leaves: threw is what it raised, raised is kept.
Settle(g) == [g EXCEPT !.raised = @ \/ g.threw # "none"]
Calm(g) == [g EXCEPT !.threw = "none"]

\* Scenes of the drawing game (in them every hint goes out).
DrawEvent(g, ev) ==
    IF ev = "connection" THEN Settle(DrawOnConnection(Calm(g)))
    ELSE IF ev = "wait" THEN Elapse(g, MinDue(g))
    ELSE IF ev = "fire" THEN Settle(FireNext(Calm(g), "sent"))
    ELSE IF ev = "drawer leaves"
         THEN Settle(DrawOnDisconnect(Calm(g), g.currentDrawerId))
    ELSE Settle(OnChatMessage(Calm(g),
                              CHOOSE id \in SeqSet(g.players) :
                                  id # g.currentDrawerId,
                              TRUE))

RECURSIVE DrawRun(_, _)
DrawRun(g, script) ==
    IF script = <<>> THEN g
    ELSE LET g1 == DrawEvent(g, Head(script)) IN
         IF g1.conns < 0 THEN g1 ELSE DrawRun(g1, Tail(script))

RECURSIVE Times(_, _)
Times(n, script) == IF n = 0 THEN <<>> ELSE script \o Times(n - 1, script)

\* n times: the time to the next timer passes and the timer fires.
RECURSIVE Firings(_, _)
Firings(g, n) ==
    IF n = 0 THEN g
    ELSE IF n = 1 THEN DrawRun(g, <<"wait", "fire">>)
    ELSE LET half == Firings(g, n \div 2) IN
         IF half.conns < 0 THEN half
         ELSE Firings(half, n - n \div 2)

\* Three players have just joined: the first round is in its get-ready delay.
DrawLobby == DrawRun(DrawEmpty, <<"connection", "connection", "connection">>)

\* Two players, first round, one second left on the clock.
DrawLastSecond ==
    Firings(DrawRun(DrawEmpty, <<"connection", "connection">>), ROUND_TIME)

\* Three players in the last round of a game, just started.
DrawLastRound ==
    DrawRun(DrawLobby,
            Times(MAX_ROUNDS - 1, <<"wait", "fire", "guess">>)
                \o <<"wait", "fire">>)

\* The drawer of the lobby left during the get-ready delay, and the delay is
\* over: two get-ready timeouts are due.
DrawRace == DrawRun(DrawLobby, <<"drawer leaves", "wait">>)

DrawScenes ==
    {DrawEmpty, DrawLobby, DrawLastSecond, DrawLastRound, DrawRace}

DrawInit ==
    /\ drawing \in DrawScenes
    /\ players = EmptyMap
    /\ bullets = EmptyMap
    /\ bulletIdCounter = 0
    /\ newPlayers = {}
    /\ removedPlayers = <<>>
    /\ delta = EmptyDelta
    /\ conns = 0
    /\ threw = "none"
    /\ since = NoLast.since
    /\ last = NoLast
    /\ steps = 0

DrawBudget ==
    /\ steps < MaxDrawSteps
    /\ steps' = steps + 1
    /\ UNCHANGED <<players, bullets, bulletIdCounter, newPlayers,
                   removedPlayers, delta, conns, threw, since, last>>

DrawConnection ==
    /\ DrawBudget
    /\ drawing.conns < MaxConns
    /\ drawing' = Settle(DrawOnConnection(Calm(drawing)))

DrawDisconnect ==
    \E id \in SeqSet(drawing.players) :
        /\ DrawBudget
        /\ drawing' = Settle(DrawOnDisconnect(Calm(drawing), id))

ChatMessage ==
    \E id \in SeqSet(drawing.players), right \in BOOLEAN :
        /\ DrawBudget
        /\ drawing' = Settle(OnChatMessage(Calm(drawing), id, right))

\* The next timer that is due fires.
Fire ==
    /\ DrawBudget
    /\ DueNow(drawing) # {}
    /\ \E hint \in HintOutcomes :
          drawing' = Settle(FireNext(Calm(drawing), hint))

\* Time passes while no timer is due: one second, or up to the second in
\* which the next timer is due.
Wait ==
    /\ DrawBudget
    /\ drawing.timers # <<>>
    /\ DueNow(drawing) = {}
    /\ \E d \in {1, MinDue(drawing)} : drawing' = Elapse(drawing, d)

\* Time passes, within the second, beyond the instant of a timer that is not
\* due in this second.
Pass ==
    /\ DrawBudget
    /\ drawing.pos < Len(drawing.timers)
    /\ drawing.timers[drawing.pos + 1].due > 0
    /\ drawing' = [drawing EXCEPT !.pos = @ + 1]

DrawNext ==
    \/ DrawConnection
    \/ DrawDisconnect
    \/ ChatMessage
    \/ Fire
    \/ Wait
    \/ Pass

SpecDrawing == DrawInit /\ [][DrawNext]_vars

-----------------------------------------------------------------------------
(* Properties.  `last.pre' is the world the last callback started from, so  *)
(* a property of one callback is a state predicate over (last.pre, now).    *)

Live == DOMAIN players

\* The last callback was a run of gameLoop that reached its broadcast.
Broadcast == last.op = "gameLoop" /\ last.sent

\* C1: every live player's hp is between 0 and its maxHp, in every state.
C1_HpWithinBounds ==
    \A id \in Live : 0 <= players[id].hp /\ players[id].hp <= players[id].maxHp

\* A bullet has just hit a live player, who is left below maxHp and above 0.
C1_Witness ==
    /\ Broadcast
    /\ \E i \in DOMAIN last.hits :
          LET id == last.hits[i][2] IN
          /\ id \in Live
          /\ players[id].hp < players[id].maxHp
          /\ players[id].hp > 0

\* The rectangle the movement step keeps a player's centre in.
InArena(p) ==
    /\ PLAYER_RADIUS <= p.x /\ p.x <= MAP_WIDTH - PLAYER_RADIUS
    /\ PLAYER_RADIUS <= p.y /\ p.y <= MAP_HEIGHT - PLAYER_RADIUS

\* C2: every live player's position is inside the arena, in every state: at
\* join, after the movement step of a tick, and after a respawn.
C2_PositionInArena == \A id \in Live : InArena(players[id])

\* A dashing player holding "a" started a tick less than one dash step from
\* the left wall and ends it on the wall.
C2_Witness ==
    /\ last.op = "gameLoop"
    /\ \E id \in Live :
          /\ id \in DOMAIN last.pre.players
          /\ "a" \in last.pre.players[id].inputs
          /\ last.pre.players[id].isDashing
          /\ last.pre.players[id].x - DASH_SPEED < PLAYER_RADIUS
          /\ players[id].x = PLAYER_RADIUS

\* C3: a gun attack whose aim vector has zero magnitude adds no bullet.
C3_ZeroAimAddsNoBullet ==
    (last.op = "attack" /\ last.type = "gun" /\ last.zero)
        => (bullets = last.pre.bullets
            /\ bulletIdCounter = last.pre.bulletIdCounter)

\* C4: a player that joined and left since the previous broadcast is in the
\* next delta's removed list and not in its new set.
C4_JoinedAndLeftOnlyRemoved ==
    Broadcast =>
        \A id \in last.window :
            /\ id \in SeqSet(delta.removed)
            /\ id \notin delta.new

\* Where a run of gameLoop moves bullet b, and the two tests it then makes,
\* written out from the numbers.
Moved(b) ==
    [x |-> b.x + b.dx * BULLET_SPEED, y |-> b.y + b.dy * BULLET_SPEED,
     nan |-> b.dirNaN \/ b.posNaN]

Outside(m) ==
    ~m.nan /\ (m.x < 0 \/ m.x > MAP_WIDTH \/ m.y < 0 \/ m.y > MAP_HEIGHT)

Touches(m, p) ==
    /\ ~m.nan
    /\ (m.x - p.x) * (m.x - p.x) + (m.y - p.y) * (m.y - p.y)
         < (PLAYER_RADIUS + BULLET_RADIUS) * (PLAYER_RADIUS + BULLET_RADIUS)

Count(seq, v) == Cardinality({i \in DOMAIN seq : seq[i] = v})

\* The bullets that struck a player in the last run of gameLoop.
Strikers == {last.hits[i][1] : i \in DOMAIN last.hits}

\* C5: a run of gameLoop removes a bullet in the run in which, once moved, it
\* is out of bounds or strikes a player, and removes it exactly once; a bullet
\* that is out of bounds strikes nobody in that run, even where it overlaps a
\* player; a bullet that stays is in bounds and overlaps no player it could
\* strike (a player respawned later in the run stands where the bullet was
\* not tested).
C5_RemovedOnceOutsideHarmless ==
    Broadcast =>
        /\ DOMAIN bullets \subseteq DOMAIN last.pre.bullets
        /\ \A b \in DOMAIN last.pre.bullets :
              LET m == Moved(last.pre.bullets[b])
                  n == Count(last.removedBullets, b)
              IN  /\ n <= 1
                  /\ (n = 1) = (b \notin DOMAIN bullets)
                  /\ Outside(m) => (n = 1 /\ b \notin Strikers)
                  /\ b \in Strikers => n = 1
                  /\ b \in DOMAIN bullets =>
                        /\ ~Outside(m)
                        /\ \A id \in Live \ (last.died \cup {bullets[b].ownerId}) :
                              ~Touches(m, players[id])
        /\ \A id \in Live :
              (\A i \in DOMAIN last.hits : last.hits[i][2] # id)
                  => players[id].hp = last.pre.players[id].hp

\* A bullet left the map while overlapping a player that is not its owner:
\* it is gone and the player's hp is what it was.
C5_Witness ==
    /\ Broadcast
    /\ \E b \in DOMAIN last.pre.bullets, id \in Live :
          LET m == Moved(last.pre.bullets[b]) IN
          /\ Outside(m)
          /\ id # last.pre.bullets[b].ownerId
          /\ Touches(m, players[id])
          /\ b \notin DOMAIN bullets
          /\ players[id].hp = last.pre.players[id].hp

\* The last strike of the last run of gameLoop that used up id's hp (0: none),
\* and the number of strikes on id after it.
LastLethal(id) ==
    LET S == {i \in DOMAIN last.hits : last.hits[i][2] = id /\ last.hits[i][3]}
    IN  IF S = {} THEN 0 ELSE CHOOSE i \in S : \A j \in S : j <= i

LaterHits(id) ==
    Cardinality({i \in DOMAIN last.hits :
                    i > LastLethal(id) /\ last.hits[i][2] = id})

\* C6 (as stated): a player whose hp damage brought to 0 or below is, at the
\* end of that tick or handler, present with hp = maxHp and inside the arena;
\* no tick and no attack removes a player.
C6_KilledPlayerAtFullHp ==
    last.op \in {"gameLoop", "attack"} =>
        /\ Live = DOMAIN last.pre.players
        /\ \A id \in last.died :
              /\ id \in Live
              /\ players[id].hp = players[id].maxHp
              /\ InArena(players[id])

\* C6 (amended): a player whose hp damage brought to 0 or below is, at the end
\* of that tick or handler, present and inside the arena; after a sword kill
\* its hp is maxHp, after a bullet kill its hp is maxHp less GUN_DAMAGE for
\* every bullet that struck it later in the same tick.  Only a disconnect
\* removes a player.
C6_KilledPlayerRespawns ==
    /\ last.op # "init" =>
          IF last.op = "disconnect"
          THEN Live = DOMAIN last.pre.players \ {last.id}
          ELSE DOMAIN last.pre.players \subseteq Live
    /\ last.op \in {"gameLoop", "attack"} =>
          \A id \in last.died :
              /\ id \in Live
              /\ InArena(players[id])
              /\ players[id].maxHp = PLAYER_MAX_HP
              /\ players[id].hp =
                    IF last.op = "attack" THEN players[id].maxHp
                    ELSE players[id].maxHp - GUN_DAMAGE * LaterHits(id)

\* A bullet used up a player's hp and a later bullet of the same tick struck
\* the respawned player.
C6_Witness ==
    /\ Broadcast
    /\ \E id \in last.died : LaterHits(id) > 0 /\ id \in Live

\* C7: a dash request while dashCooldown is positive changes nothing of the
\* world (players, bullets, counters, accumulators) and raises nothing.
C7_DashOnCooldownNoOp ==
    (/\ last.op = "dash"
     /\ last.id \in DOMAIN last.pre.players
     /\ last.pre.players[last.id].dashCooldown > 0)
        => (/\ [World EXCEPT !.threw = "none"] = [last.pre EXCEPT !.threw = "none"]
            /\ threw = "none")

\* A dash request after the active window ended, within the cooldown.
C7_Witness ==
    /\ last.op = "dash"
    /\ last.id \in DOMAIN last.pre.players
    /\ last.pre.players[last.id].dashCooldown > 0
    /\ ~last.pre.players[last.id].isDashing
    /\ last.pre.players[last.id].dashTimer <= 0

\* The last callback was a sword swing that passed the cooldown guard.
Swing == last.op = "attack" /\ last.type = "sword" /\ last.ready

\* C8: a target in melee range whose bearing differs from the attacker's
\* facing by exactly half the arc (|angleDiff| = MELEE_ARC / 2) is missed.
C8_ArcEdgeIsMiss ==
    (Swing /\ last.rounding = "eq") =>
        \A t \in last.edge :
            /\ t \in Live
            /\ last.hit # t
            /\ players[t].hp = last.pre.players[t].hp
            /\ players[t].x = last.pre.players[t].x
            /\ players[t].y = last.pre.players[t].y

\* A swing with a target in range exactly on the edge of the arc.
C8_Witness ==
    /\ Swing
    /\ last.rounding = "eq"
    /\ \E t \in last.edge :
          /\ players[t].hp = last.pre.players[t].hp
          /\ <<players[t].x, players[t].y>>
                # <<players[last.id].x, players[last.id].y>>

\* What one strike makes of hp.
Struck(hp) == IF hp - GUN_DAMAGE <= 0 THEN PLAYER_MAX_HP ELSE hp - GUN_DAMAGE

\* hp after the strikes of hits on id, in the order of hits.
RECURSIVE HpAfter(_, _, _)
HpAfter(hp, hits, id) ==
    IF hits = <<>> THEN hp
    ELSE HpAfter(IF Head(hits)[2] = id THEN Struck(hp) ELSE hp, Tail(hits), id)

\* Player id as the first loop of the last run of gameLoop left it.
AfterMovement(id) ==
    PlayerLoop(last.pre.players, DOMAIN last.pre.players, {}).players[id]

\* C9: in the tick in which an in-bounds bullet, once moved, overlaps a player
\* other than its owner, it strikes the first such player: the strike takes
\* GUN_DAMAGE off the hp that player has at that moment (or resets it to maxHp
\* if that leaves 0 or less), the bullet changes nobody else's hp (a player's
\* hp after the tick is its hp before with the strikes on it applied in
\* ascending bullet id, and is unchanged if nothing struck it), and the
\* bullet is in neither that tick's delta nor any later one (a bullet id that
\* is gone never comes back, and the delta lists stored bullets only).
C9_StrikesApplyInTurn ==
    /\ DOMAIN delta.bullets \subseteq DOMAIN bullets
    /\ \A b \in DOMAIN bullets : b < bulletIdCounter
    /\ \A b \in 0 .. (last.pre.bulletIdCounter - 1) :
          b \notin DOMAIN last.pre.bullets => b \notin DOMAIN bullets
    /\ Broadcast =>
          /\ \A id \in Live :
                players[id].hp = HpAfter(last.pre.players[id].hp, last.hits, id)
          /\ \A i \in DOMAIN last.hits :
                LET b == last.hits[i][1]
                    id == last.hits[i][2]
                    m == Moved(last.pre.bullets[b])
                IN  /\ b \in DOMAIN last.pre.bullets
                    /\ id \in Live
                    /\ id # last.pre.bullets[b].ownerId
                    /\ ~Outside(m)
                    /\ (\A j \in 1 .. (i - 1) : last.hits[j][2] # id)
                          => Touches(m, AfterMovement(id))
                    /\ \A j \in DOMAIN last.hits : j < i => last.hits[j][1] < b
                    /\ b \notin DOMAIN bullets
                    /\ b \notin DOMAIN delta.bullets
          /\ \A b \in DOMAIN last.pre.bullets :
                LET m == Moved(last.pre.bullets[b]) IN
                (/\ ~Outside(m)
                 /\ \E id \in Live \ (last.died \cup {last.pre.bullets[b].ownerId}) :
                       Touches(m, players[id]))
                    => b \in Strikers

\* Two bullets struck the same player in one tick.
C9_Witness ==
    /\ Broadcast
    /\ \E i, j \in DOMAIN last.hits :
          /\ i < j
          /\ last.hits[i][2] = last.hits[j][2]
          /\ last.hits[i][2] \in Live
          /\ last.hits[j][1] \notin DOMAIN delta.bullets

\* C10: no inbound action, however malformed, makes a later run of gameLoop
\* raise: every run completes its movement step and its broadcast.
C10_TickNeverRaises ==
    last.op = "gameLoop" => (threw = "none" /\ last.sent)

\* What puts player id in playerUpdates in a run of gameLoop, read off the
\* world before and after the run: a key down, a dash that ended or goes on,
\* a running cooldown, or a strike.
Fresh(id) ==
    \/ players[id].inputs \cap {"w", "a", "s", "d"} # {}
    \/ last.pre.players[id].isDashing
    \/ players[id].dashCooldown > 0
    \/ players[id].gunCooldown > 0
    \/ players[id].meleeCooldown > 0
    \/ players[id].hp # last.pre.players[id].hp

\* C11: the accumulators hold exactly the players that joined and that left
\* since the previous broadcast; a broadcast delta carries exactly those in
\* `new' and `removed' (each leaver once) and leaves both accumulators
\* empty, so a join or a leave is in no second delta; `updates' of a tick
\* holds exactly the players that tick itself found changed.
C11_DeltaExactThenReset ==
    /\ newPlayers = since.joined
    /\ SeqSet(removedPlayers) = since.left
    /\ Len(removedPlayers) = Cardinality(since.left)
    /\ Broadcast =>
          /\ delta.new = last.since.joined
          /\ SeqSet(delta.removed) = last.since.left
          /\ Len(delta.removed) = Cardinality(last.since.left)
          /\ newPlayers = {}
          /\ removedPlayers = <<>>
          /\ delta.updates = {id \in Live : Fresh(id)}

\* A broadcast that reports a join and a leave, with a player in `updates'
\* and a player left out of it.
C11_Witness ==
    /\ Broadcast
    /\ delta.new # {}
    /\ delta.removed # <<>>
    /\ delta.updates # {}
    /\ Live \ delta.updates # {}

\* The bullets of the world the last callback started from whose owner was
\* no longer a player then.
Orphans ==
    {b \in DOMAIN last.pre.bullets :
        last.pre.bullets[b].ownerId \notin DOMAIN last.pre.players}

\* C12: a disconnect changes no bullet, the leaver's included, and raises
\* nothing; in later ticks a bullet without owner moves on like any other,
\* goes only by leaving the map or striking a player, and makes no tick
\* raise (a tick raises only over a player whose inputs are null).
C12_LeaveKeepsBullets ==
    /\ last.op = "disconnect" =>
          /\ bullets = last.pre.bullets
          /\ bulletIdCounter = last.pre.bulletIdCounter
          /\ threw = "none"
    /\ last.op = "gameLoop" =>
          /\ (\A id \in Live : players[id].inputs # NullInputs) => last.sent
          /\ last.sent =>
                \A b \in Orphans :
                    LET m == Moved(last.pre.bullets[b]) IN
                    IF b \in DOMAIN bullets
                    THEN /\ ~Outside(m)
                         /\ b \notin Strikers
                         /\ bullets[b].ownerId = last.pre.bullets[b].ownerId
                         /\ m.nan \/ (bullets[b].x = m.x /\ bullets[b].y = m.y)
                    ELSE Outside(m) \/ b \in Strikers

\* A bullet whose owner has left strikes a player.
C12_Witness ==
    /\ Broadcast
    /\ \E i \in DOMAIN last.hits :
          /\ last.hits[i][1] \in Orphans
          /\ last.hits[i][2] \in Live
          /\ players[last.hits[i][2]].hp # last.pre.players[last.hits[i][2]].hp

\* C13: the 'init' message a connection handler sends has a player set, and
\* it is exactly the set of live players, the joiner included.
C13_InitSnapshotIsLivePlayers ==
    last.op = "connection" =>
        /\ "existingPlayers" \in DOMAIN last.init
        /\ last.init.existingPlayers = Live
        /\ last.init.id \in Live

\* The displacement a set of keys asks for, in steps: w then s on y, a then d
\* on x.
KeysDX(keys) ==
    (IF "d" \in keys THEN 1 ELSE 0) - (IF "a" \in keys THEN 1 ELSE 0)

KeysDY(keys) ==
    (IF "s" \in keys THEN 1 ELSE 0) - (IF "w" \in keys THEN 1 ELSE 0)

\* v kept in lo..hi.
Kept(lo, hi, v) == IF v < lo THEN lo ELSE IF v > hi THEN hi ELSE v

\* C14: an 'inputs' event replaces the sender's inputs by its payload and a
\* 'mouse_move' event the sender's target, whatever was stored before, and
\* neither changes anything else (position, hp, timers, other players,
\* bullets, counters, accumulators); a tick moves each player by the inputs
\* stored when it runs and by nothing earlier.
C14_LastWriteWinsNothingElse ==
    /\ last.op = "inputs" =>
          /\ players[last.id].inputs = last.keys
          /\ [World EXCEPT !.threw = "none"]
               = [last.pre EXCEPT !.players[last.id].inputs = last.keys,
                                  !.threw = "none"]
    /\ last.op = "mouse_move" =>
          /\ players[last.id].targetX = last.aim[1]
          /\ players[last.id].targetY = last.aim[2]
          /\ [World EXCEPT !.threw = "none"]
               = [last.pre EXCEPT !.players[last.id].targetX = last.aim[1],
                                  !.players[last.id].targetY = last.aim[2],
                                  !.threw = "none"]
    /\ Broadcast =>
          \A id \in Live \ last.died :
              LET p == players[id]
                  q == last.pre.players[id]
                  speed == IF p.isDashing THEN DASH_SPEED ELSE PLAYER_SPEED
              IN  /\ p.inputs = q.inputs
                  /\ IF p.inputs \cap {"w", "a", "s", "d"} = {}
                     THEN p.x = q.x /\ p.y = q.y
                     ELSE /\ p.x = Kept(PLAYER_RADIUS, MAP_WIDTH - PLAYER_RADIUS,
                                        q.x + speed * KeysDX(p.inputs))
                          /\ p.y = Kept(PLAYER_RADIUS, MAP_HEIGHT - PLAYER_RADIUS,
                                        q.y + speed * KeysDY(p.inputs))

\* An 'inputs' event that replaced other keys that were down.
C14_Witness ==
    /\ last.op = "inputs"
    /\ last.keys # NullInputs
    /\ last.pre.players[last.id].inputs # NullInputs
    /\ last.pre.players[last.id].inputs \ last.keys # {}
    /\ last.keys \ last.pre.players[last.id].inputs # {}
    /\ players[last.id].inputs = last.keys

\* What one sword hit makes of hp.
Slashed(hp) == IF hp - MELEE_DAMAGE <= 0 THEN PLAYER_MAX_HP ELSE hp - MELEE_DAMAGE

\* Squared distance between two players.
Dist2(p, t) == (t.x - p.x) * (t.x - p.x) + (t.y - p.y) * (t.y - p.y)

\* The bearing from attacker p to target t is strictly inside half the arc
\* around p's facing, as the comparison of the last swing came out.
StrictlyInArc(p, t) ==
    ArcCompare(<<p.targetX - p.x, p.targetY - p.y>>,
               <<t.x - p.x, t.y - p.y>>, last.rounding) = "lt"

\* C15: a swing that passed the cooldown guard hits every other live player
\* at a distance of at most PLAYER_RADIUS + MELEE_RANGE, that distance
\* itself included, whose bearing is strictly inside half the arc.
C15_WithinOrAtRangeIsHit ==
    Swing =>
        \A t \in DOMAIN last.pre.players \ {last.id} :
            LET p == last.pre.players[last.id]
                q == last.pre.players[t]
            IN  (/\ Dist2(p, q) <= (PLAYER_RADIUS + MELEE_RANGE)
                                      * (PLAYER_RADIUS + MELEE_RANGE)
                 /\ StrictlyInArc(p, q))
                    => players[t].hp = Slashed(q.hp)

\* The same for a single target at exactly that distance.
AtRangeAloneIsHit ==
    Swing =>
        \A t \in DOMAIN last.pre.players \ {last.id} :
            LET p == last.pre.players[last.id]
                q == last.pre.players[t]
            IN  (/\ Cardinality(DOMAIN last.pre.players) = 2
                 /\ Dist2(p, q) = (PLAYER_RADIUS + MELEE_RANGE)
                                      * (PLAYER_RADIUS + MELEE_RANGE)
                 /\ StrictlyInArc(p, q))
                    => players[t].hp = Slashed(q.hp)

\* The players the range-and-arc test of the last swing passes, as the code
\* makes it (dist < PLAYER_RADIUS + MELEE_RANGE, angle strictly inside).
Eligible ==
    {t \in DOMAIN last.pre.players \ {last.id} :
        /\ Dist2(last.pre.players[last.id], last.pre.players[t])
              < (PLAYER_RADIUS + MELEE_RANGE) * (PLAYER_RADIUS + MELEE_RANGE)
        /\ StrictlyInArc(last.pre.players[last.id], last.pre.players[t])}

\* C16: a swing that passed the cooldown guard takes MELEE_DAMAGE off every
\* eligible player (or resets it), not off the first one only.
C16_SwingHitsEveryEligible ==
    Swing =>
        \A t \in Eligible : players[t].hp = Slashed(last.pre.players[t].hp)

\* C17: every live player whose hp was changed by a bullet in a tick, or by
\* a sword since the broadcast before, is in `updates' of the tick's delta.
C17_DamagedIsInUpdates ==
    Broadcast =>
        /\ \A i \in DOMAIN last.hits : last.hits[i][2] \in delta.updates
        /\ \A id \in last.since.hurt \cap Live : id \in delta.updates

\* The same for bullets alone.
BulletDamagedIsInUpdates ==
    Broadcast =>
        \A id \in Live :
            (\E i \in DOMAIN last.hits : last.hits[i][2] = id)
                => id \in delta.updates

\* What, other than the movement step, puts player id in playerUpdates in a
\* run of gameLoop: a dash that ended or goes on, a running cooldown, a
\* strike.
MarkedOtherwise(id) ==
    \/ last.pre.players[id].isDashing
    \/ players[id].dashCooldown > 0
    \/ players[id].gunCooldown > 0
    \/ players[id].meleeCooldown > 0
    \/ players[id].hp # last.pre.players[id].hp

\* C18: the movement step marks a player as changed only if its position
\* after displacement and clamping differs from its position before: a
\* player in `updates' for no other reason has moved.
C18_MarkedOnlyIfPositionChanged ==
    Broadcast =>
        \A id \in delta.updates :
            MarkedOtherwise(id)
                \/ <<players[id].x, players[id].y>>
                      # <<last.pre.players[id].x, last.pre.players[id].y>>

\* The same for the build of server.js, where only the movement step and a
\* strike mark a player.
SrvMarkedOnlyIfPositionChanged ==
    (last.op = "gameLoop" /\ last.sent) =>
        \A id \in delta.updates :
            \/ players[id].hp # last.pre.players[id].hp
            \/ <<players[id].x, players[id].z>>
                  # <<last.pre.players[id].x, last.pre.players[id].z>>

\* ------------------------------------------------------------------- C19
\* The last callback was an attack of the given type.
Attacked(type) == last.op = "attack" /\ last.type = type

\* The last callback left the world as it was and raised nothing.
Untouched ==
    /\ threw = "none"
    /\ [World EXCEPT !.threw = "none"] = [last.pre EXCEPT !.threw = "none"]

\* The last callback was a gun attack that spawned a projectile.
Spawned == Attacked("gun") /\ bulletIdCounter = last.pre.bulletIdCounter + 1

\* The player's timer, read by field name, went from ready to cooling in the
\* last callback.
Armed(id, timer) ==
    /\ id \in DOMAIN last.pre.players
    /\ last.pre.players[id][timer] <= 0
    /\ players[id][timer] > 0

\* C19: an ability is usable only when its timer is at or below zero and
\* starts cooling only through a use: a gun or sword attack received while
\* the cooldown is positive spawns nothing, damages nobody and leaves the
\* cooldown (and everything else) as it was; a timer leaves the ready state
\* only in the attack of that type by that player; and between two shots of
\* one player at least GUN_COOLDOWN / dt ticks elapse.
C19_CooldownGatesAttack ==
    /\ (Attacked("gun") /\ last.pre.players[last.id].gunCooldown > 0)
           => Untouched
    /\ (Attacked("sword") /\ last.pre.players[last.id].meleeCooldown > 0)
           => Untouched
    /\ \A id \in Live :
           /\ Armed(id, "gunCooldown") => Spawned /\ last.id = id
           /\ Armed(id, "meleeCooldown") => Attacked("sword") /\ last.id = id
    /\ (Spawned /\ last.pre.players[last.id].sinceShot >= 0)
           => last.pre.players[last.id].sinceShot >= GUN_COOLDOWN \div DT

\* A gun attack arrives GUN_COOLDOWN / dt ticks after the player's last shot,
\* while what is left of the cooldown is still positive.
C19_Witness ==
    /\ Attacked("gun")
    /\ last.pre.players[last.id].gunCooldown > 0
    /\ last.pre.players[last.id].sinceShot = GUN_COOLDOWN \div DT

\* A player shoots again one tick later, once the cooldown has run out.
ShootsAgain ==
    /\ Spawned
    /\ last.pre.players[last.id].sinceShot = GUN_COOLDOWN \div DT + 1
\* ------------------------------------------------------------------- C20
\* The four timers of a player.
Timers(p) == <<p.gunCooldown, p.meleeCooldown, p.dashCooldown, p.dashTimer>>

\* C20: a tick never leaves a negative timer: every timer of a live player
\* that was at or above zero before a run of gameLoop is at or above zero
\* after it.
C20_TickLeavesNoNegativeTimer ==
    last.op = "gameLoop" =>
        \A id \in Live \cap DOMAIN last.pre.players :
            \A i \in 1..4 :
                Timers(last.pre.players[id])[i] >= 0
                    => Timers(players[id])[i] >= 0
\* ------------------------------------------------------------------- C21
\* The dash of a player is under way only while its timer is positive, and
\* only inside the cooldown it started.
DashNested(p) == p.isDashing => p.dashTimer > 0 /\ p.dashCooldown > 0

\* C21: in every state a dash is under way only while its timer is positive
\* and its cooldown is running, and once DASH_DURATION / dt ticks have
\* stepped the player since the dash began, the dash is over.
C21_DashNestedAndOverInTime ==
    \A id \in Live :
        /\ DashNested(players[id])
        /\ (last.op = "gameLoop"
              /\ players[id].sinceDash >= DASH_DURATION \div DT)
               => ~players[id].isDashing

\* What holds of the dash: it is nested in its timer and its cooldown, and
\* it is over one tick later than DASH_DURATION / dt.
DashOverOneTickLater ==
    \A id \in Live :
        /\ DashNested(players[id])
        /\ players[id].sinceDash > DASH_DURATION \div DT
               => ~players[id].isDashing

\* A dash has ended by itself in the last tick.
DashEndsByItself ==
    /\ last.op = "gameLoop"
    /\ \E id \in Live \cap DOMAIN last.pre.players :
           last.pre.players[id].isDashing /\ ~players[id].isDashing
\* ------------------------------------------------------------------- C22
\* The players other than its owner that bullet b, once moved, overlaps
\* where they stood before the last run of gameLoop.
InReach(b) ==
    {id \in DOMAIN last.pre.players :
        /\ id # last.pre.bullets[b].ownerId
        /\ Touches(Moved(last.pre.bullets[b]), AfterMovement(id))}

\* C22: a bullet lowers the hp of at most one player, at most once, and
\* never its owner's: in a run of gameLoop every strike is by a bullet that
\* was in flight, has struck nobody before and strikes once in the run, on a
\* player that is not its owner; the bullet is gone when the run ends; and a
\* player no strike names keeps its hp.
C22_BulletStrikesOnceNotOwner ==
    last.op = "gameLoop" =>
        /\ \A i \in DOMAIN last.hits :
              LET b == last.hits[i][1] IN
              /\ b \in DOMAIN last.pre.bullets
              /\ b \notin last.since.struck
              /\ last.hits[i][2] # last.pre.bullets[b].ownerId
              /\ \A j \in DOMAIN last.hits : last.hits[j][1] = b => j = i
              /\ b \notin DOMAIN bullets
        /\ \A id \in Live :
              (\A i \in DOMAIN last.hits : last.hits[i][2] # id)
                  => players[id].hp >= last.pre.players[id].hp

\* A bullet that overlapped its owner and two other players has struck one
\* of them and is gone.
C22_Witness ==
    /\ last.op = "gameLoop"
    /\ \E i \in DOMAIN last.hits :
          LET b == last.hits[i][1] IN
          /\ Cardinality(InReach(b)) >= 2
          /\ last.pre.bullets[b].ownerId \in DOMAIN last.pre.players
          /\ Touches(Moved(last.pre.bullets[b]),
                     AfterMovement(last.pre.bullets[b].ownerId))
          /\ b \notin DOMAIN bullets
\* ------------------------------------------------------------------- C23
\* The bullets the last callback created.
Created == DOMAIN bullets \ DOMAIN last.pre.bullets

\* C23: bullet ids come from a counter that only grows: the counter is above
\* the id of every bullet in flight and never goes down, and a bullet created
\* by a callback has an id at or above the counter before it, that is above
\* every id handed out earlier, whether or not that bullet or its owner is
\* still there.
C23_BulletIdsNeverReused ==
    /\ \A b \in DOMAIN bullets : b >= 0 /\ b < bulletIdCounter
    /\ bulletIdCounter >= last.pre.bulletIdCounter
    /\ \A b \in Created : b >= last.pre.bulletIdCounter
    /\ Cardinality(Created) <= bulletIdCounter - last.pre.bulletIdCounter

\* A player shoots after every earlier bullet is gone and the player who
\* fired them has left: the new bullet has the next id, not the first.
C23_Witness ==
    /\ Spawned
    /\ last.pre.bulletIdCounter > 0
    /\ DOMAIN last.pre.bullets = {}
    /\ 1 \notin Live
    /\ Created = {last.pre.bulletIdCounter}
\* ------------------------------------------------------------------- C24
\* <<bullet, player>> of each strike of a run of gameLoop, in order.
Targets(hits) == [i \in DOMAIN hits |-> <<hits[i][1], hits[i][2]>>]

\* Where player id stood when the bullet of the i-th strike of the last run
\* was tested: where its respawn put it if an earlier strike of the run used
\* up its hp, where the movement step left it otherwise.
StoodAt(id, i) ==
    IF \E k \in DOMAIN last.hits :
           k < i /\ last.hits[k][2] = id /\ last.hits[k][3]
    THEN players[id]
    ELSE AfterMovement(id)

\* The players the bullet of the i-th strike overlapped when it was tested,
\* its owner left out.
Overlapped(i) ==
    LET b == last.hits[i][1] IN
    {id \in DOMAIN last.pre.players :
        /\ id # last.pre.bullets[b].ownerId
        /\ Touches(Moved(last.pre.bullets[b]), StoodAt(id, i))}

\* C24 (as stated): when a bullet overlaps several players other than its
\* owner, any two runs of gameLoop from the same world damage the same
\* player with it: the bullet has the same target whatever the run draws
\* for the respawns.
C24_SameWorldSameTarget ==
    last.op = "gameLoop" =>
        \A i \in DOMAIN last.hits :
            Cardinality(Overlapped(i)) >= 2 =>
                \A jitter \in Jitters :
                    \E k \in DOMAIN GameLoopRun(last.pre, jitter).hits :
                        Targets(GameLoopRun(last.pre, jitter).hits)[k]
                            = Targets(last.hits)[i]

\* C24: a run of gameLoop resolves the bullets in ascending id and tests the
\* players in the order of the players object: the strikes of a run are in
\* ascending bullet id, and each is on the first player, in that order, that
\* the bullet overlapped where the player stood at that moment (its owner left
\* out).  Where a player stands after a respawn is drawn, so the target is
\* fixed by the world and the draws.
C24_StrikesInFixedOrder ==
    last.op = "gameLoop" =>
        /\ \A i, j \in DOMAIN last.hits :
              i < j => last.hits[i][1] < last.hits[j][1]
        /\ \A i \in DOMAIN last.hits :
              last.hits[i][2] = Least(Overlapped(i))

\* A bullet that overlapped two players other than its owner has struck the
\* one that joined first.
C24_Witness ==
    /\ last.op = "gameLoop"
    /\ \E i \in DOMAIN last.hits :
          /\ Cardinality(Overlapped(i)) >= 2
          /\ last.hits[i][2] = Least(Overlapped(i))
\* ------------------------------------------------------------------- C25
\* C25: the deltas are enough to follow who is a player: at every broadcast
\* the players of the previous broadcast, with those in `new' added and then
\* those in `removed' taken out, are the players of the world.
C25_DeltaTracksMembership ==
    Broadcast =>
        (last.since.live \cup delta.new) \ SeqSet(delta.removed) = Live

\* A broadcast after a window in which one player joined and another left.
C25_Witness ==
    /\ Broadcast
    /\ delta.new # {}
    /\ delta.removed # <<>>
    /\ delta.new \subseteq Live
    /\ Live # last.since.live

\* A broadcast after a window in which a player joined and left again.
JoinedAndLeftInWindow ==
    /\ Broadcast
    /\ last.window # {}
    /\ Live = last.since.live
\* ------------------------------------------------------------------- C26
\* C26: every dash request and every sword attack runs to its end and raises
\* nothing, a dash that starts and a swing that hits included.
C26_DashAndSwordNeverRaise ==
    (last.op = "dash" \/ Attacked("sword")) => threw = "none"

\* The two handlers raise nothing where they write nothing: a dash refused by
\* its cooldown, a swing refused by its cooldown and a swing that hits nobody.
QuietWhenNothingWritten ==
    /\ (last.op = "dash" /\ ~last.ready) => threw = "none"
    /\ (Attacked("sword") /\ (~last.ready \/ last.hit = 0)) => threw = "none"
\* ------------------------------------------------------------- C27, C28
\* The intervals of the drawing game that are set.
Intervals == {j \in DOMAIN drawing.timers : drawing.timers[j].kind = "interval"}

DecrementedTwice == ~drawing.raised /\ drawing.decs >= 2

\* A round is active with one player connected, and nothing has raised.
ActiveAlone ==
    /\ ~drawing.raised
    /\ drawing.isRoundActive
    /\ Len(drawing.players) < 2

\* The last callback of the drawing game read the record of a drawer that is
\* not connected, and raised.
DrawerMissed ==
    /\ drawing.threw # "none"
    /\ drawing.currentDrawerId \notin SeqSet(drawing.players)

\* C28: in the drawing game, whenever isRoundActive is true at least two
\* players are connected and currentDrawerId is one of them, and no callback
\* raises over a drawer that is gone.
C28_ActiveRoundHasDrawer ==
    /\ ~DrawerMissed
    /\ (drawing.isRoundActive /\ ~drawing.raised) =>
          /\ Len(drawing.players) >= 2
          /\ drawing.currentDrawerId \in SeqSet(drawing.players)
====
